---- MODULE Spec2Model ----
(***************************************************************************)
(* Model of the devconnector API handlers: routes/api/posts               *)
(* (src/unnamed/part_000) and routes/api/profile (src/routes/api/         *)
(* profile.js).  Every handler is an async function; it is cut at its     *)
(* awaits into the steps at which it touches the document store, so that  *)
(* the load and save steps of concurrent requests can interleave.         *)
(***************************************************************************)
EXTENDS Integers, Sequences, FiniteSets, TLC

(* ------------------------------ bounds -------------------------------- *)
MaxPosts == 1        \* posts ever created
MaxComments == 2     \* comments ever created
MaxProfiles == 2     \* profile documents ever created
MaxExp == 2          \* experience entries ever created
MaxReqs == 2         \* requests in flight at the same time

Users == {"u1", "u2"}
Reqs == 1..MaxReqs

\* Hex strings of the ObjectIds the store generates, in generation order.
PostIdPool == <<"p1", "p2", "p3", "p4">>
CommentIdPool == <<"c1", "c2", "c3", "c4">>
ProfileIdPool == <<"f1", "f2", "f3", "f4">>
ExpIdPool == <<"e1", "e2", "e3", "e4">>

\* An id string that does not cast to an ObjectId.
Malformed == "zz"

PostIds == {PostIdPool[i] : i \in 1..MaxPosts}
CommentIds == {CommentIdPool[i] : i \in 1..MaxComments}
PostIdInputs == PostIds \cup {Malformed}
CommentIdInputs == CommentIds \cup {Malformed}
TextInputs == {"", "hello"}

\* Request bodies of POST api/profile (an omitted key reads as "").  A
\* string that the handler takes apart is a sequence of characters.
NoBody == [company |-> "", website |-> "", location |-> "", bio |-> "",
           status |-> "", githubusername |-> "", skills |-> <<>>,
           youtube |-> "", facebook |-> "", twitter |-> "", instagram |-> "",
           linkedin |-> ""]
BodyNoStatus == [NoBody EXCEPT !.company = "acme"]
BodyCompany == [NoBody EXCEPT !.status = "dev", !.skills = <<"a">>,
                              !.company = "acme", !.youtube = "y"]
BodyBio == [NoBody EXCEPT !.status = "dev",
                          !.skills = <<" ", "a", ",", " ", "b", " ">>,
                          !.bio = "hi", !.twitter = "t"]
UpsertInputs == {BodyNoStatus, BodyCompany, BodyBio}

\* Request bodies of PUT api/profile/experience.
NoExp == [title |-> "", company |-> "", location |-> "", from |-> "",
          to |-> "", current |-> "", description |-> ""]
ExpInputs ==
  { [NoExp EXCEPT !.title = "dev", !.company = "acme"],
    [NoExp EXCEPT !.title = "dev", !.company = "acme", !.from = "2019"],
    [NoExp EXCEPT !.title = "cto", !.company = "acme", !.from = "2020",
                  !.current = "true"] }

ExpIds == {ExpIdPool[i] : i \in 1..MaxExp}
ExpIdInputs == ExpIds \cup {Malformed}

(* ------------------------- values and helpers ------------------------- *)
\* A stored reference (ObjectId) and its canonical string form.
ObjectId(s) == [oid |-> s]
OidString(o) == o.oid

\* The User directory: name and avatar of each registered user.
UserDoc(u) == [_id |-> ObjectId(u), name |-> u, avatar |-> u]

\* Slip: push instead of unshift.
Unshift_Push(arr, x) == arr \o <<x>>

\* Array.prototype.unshift / splice(i, 1) / indexOf, 0-based as in the code.
Unshift(arr, x) == <<x>> \o arr

IndexOf(arr, x) ==
  IF \E i \in 1..Len(arr) : arr[i] = x
  THEN (CHOOSE i \in 1..Len(arr) :
          arr[i] = x /\ \A j \in 1..(i - 1) : arr[j] # x) - 1
  ELSE -1

\* splice(start, 1): a negative start counts from the end of the array.
Splice1(arr, start) ==
  LET n == Len(arr)
      s == IF start < 0 THEN (IF n + start < 0 THEN 0 ELSE n + start)
           ELSE (IF start > n THEN n ELSE start)
  IN [i \in 1..(IF s < n THEN n - 1 ELSE n) |->
        IF i <= s THEN arr[i] ELSE arr[i + 1]]

UserString(e) == OidString(e.user)
IdString(e) == OidString(e._id)

\* arr.map(e => e.user.toString()) and arr.map(item => item.id)
UserStrings(arr) == [i \in 1..Len(arr) |-> UserString(arr[i])]
IdStrings(arr) == [i \in 1..Len(arr) |-> IdString(arr[i])]

(* ------------------------------ responses ----------------------------- *)
Json(body) == [status |-> 200, msg |-> "", body |-> body]
Status(code, text) == [status |-> code, msg |-> text, body |-> <<>>]
NoResp == [status |-> 0, msg |-> ""]

ValidationError == Status(400, "Text is required")
PostNotFound == Status(404, "Post not found")
NotAuthorized == Status(401, "User not authorized")
AlreadyLiked == Status(400, "Post already liked")
NotLiked == Status(400, "Post has not yet been liked")
CommentNotFound == Status(404, "Comment does not exist")
ServerError == Status(500, "Server Error")
PostRemoved == Status(200, "Post removed")

(* -------------------------------- state ------------------------------- *)
VARIABLES
  users,        \* set of user ids with a User document
  posts,        \* Post collection: id string -> <<document>>, or <<>> if none
  profiles,     \* Profile collection: sequence of documents
  nextPost, nextComment, nextProfile, nextExp,   \* ids generated so far + 1
  reqs,         \* the requests in flight: handler, arguments, loaded copy
  last          \* the request answered last, what it had loaded, its response

vars == <<users, posts, profiles, nextPost, nextComment, nextProfile,
          nextExp, reqs, last>>

\* A request in flight: the route parameters (id, cid = comment_id, eid =
\* exp_id), the request body, and what the handler has loaded so far: doc
\* (null is <<>>; of a document, the fields the handler reads) and udoc,
\* the user.
IdleReq == [pc |-> "idle", op |-> "", user |-> "", id |-> "", cid |-> "",
            eid |-> "", text |-> "", body |-> <<>>, udoc |-> <<>>, doc |-> <<>>]

NoLast == [op |-> "", user |-> "", id |-> "", cid |-> "", eid |-> "",
           doc |-> <<>>, resp |-> NoResp]

\* The handlers do not share state, so a new request takes the first free slot.
Free(r) == reqs[r].pc = "idle" /\ \A k \in 1..(r - 1) : reqs[k].pc # "idle"

NewReq(o, u, i, c, t) == [IdleReq EXCEPT !.pc = "loaded", !.op = o, !.user = u,
                                          !.id = i, !.cid = c, !.text = t]

\* res.status(..).json(..) / res.json(..): the handler ends.  Of the
\* response, last keeps the status and the message.
Respond(r, q, rsp) ==
  /\ reqs' = [reqs EXCEPT ![r] = IdleReq]
  /\ last' = [op |-> q.op, user |-> q.user, id |-> q.id, cid |-> q.cid,
              eid |-> q.eid, doc |-> q.doc,
              resp |-> [status |-> rsp.status, msg |-> rsp.msg]]

Await(r, q) == reqs' = [reqs EXCEPT ![r] = q] /\ UNCHANGED last

Init ==
  /\ users = Users
  /\ posts = [id \in PostIds |-> <<>>]
  /\ profiles = <<>>
  /\ nextPost = 1
  /\ nextComment = 1
  /\ nextProfile = 1
  /\ nextExp = 1
  /\ reqs = [r \in Reqs |-> IdleReq]
  /\ last = NoLast

(* ------------------------- document store (posts) --------------------- *)
\* Model.findById on a well-formed id: the document, or null (<<>>).  A
\* malformed id throws a CastError of kind ObjectId, which each handler's
\* catch block reports in its own way.
FindPostById(id) == posts[id]

FindUserById(u) == IF u \in users THEN <<UserDoc(u)>> ELSE <<>>

\* The part of a loaded post that a handler reads: one field of it.
Field(found, f) == IF found = <<>> THEN <<>> ELSE <<found[1][f]>>

\* The part of a loaded profile that a handler reads: some fields of it.
Fields(found, fs) == IF found = <<>> THEN <<>> ELSE <<[f \in fs |-> found[1][f]]>>

\* document.save() after an in-place change of one array path: the path is
\* written over the stored one, whatever was stored since the load (no
\* concurrency token).  A save of a document removed meanwhile writes
\* nothing; whether it reports an error is left open.
SaveOutcomes(id) == IF posts[id] # <<>> THEN {"ok"} ELSE {"ok", "error"}

\* Slip: the store merges: entries stored since the load are kept behind
\* the ones written.
SaveLikes_Merge(id, likes) ==
  IF posts[id] # <<>>
  THEN [posts EXCEPT ![id] =
          <<[@[1] EXCEPT !.likes =
               likes \o SelectSeq(@, LAMBDA l :
                           \A i \in 1..Len(likes) : likes[i] # l)]>>]
  ELSE posts

SaveLikes(id, likes) ==
  IF posts[id] # <<>>
  THEN [posts EXCEPT ![id] = <<[@[1] EXCEPT !.likes = likes]>>]
  ELSE posts

\* Slip: the document is written back from a copy that has no likes.
SaveComments_NoLikes(id, comments) ==
  IF posts[id] # <<>>
  THEN [posts EXCEPT ![id] = <<[@[1] EXCEPT !.comments = comments, !.likes = <<>>]>>]
  ELSE posts

SaveComments(id, comments) ==
  IF posts[id] # <<>>
  THEN [posts EXCEPT ![id] = <<[@[1] EXCEPT !.comments = comments]>>]
  ELSE posts

InFlight(o) == Cardinality({r \in Reqs : reqs[r].op = o})

StoreUnchanged == UNCHANGED <<users, posts, profiles, nextPost, nextComment,
                              nextProfile, nextExp>>

(* ------------------- POST api/posts: create a post -------------------- *)
NewPost(id, text, user, uid) ==
  [_id |-> ObjectId(id), text |-> text, name |-> user.name,
   avatar |-> user.avatar, user |-> ObjectId(uid),
   likes |-> <<>>, comments |-> <<>>]

CreatePostLoad(r, u, text) ==
  LET q == NewReq("createPost", u, "", "", text) IN
  /\ Free(r)
  /\ nextPost + InFlight("createPost") <= MaxPosts
  /\ IF text = "" THEN Respond(r, q, ValidationError)
     ELSE Await(r, [q EXCEPT !.udoc = FindUserById(u)])
  /\ StoreUnchanged

CreatePostFinish(r) ==
  LET q == reqs[r] IN
  /\ q.pc = "loaded" /\ q.op = "createPost"
  /\ IF q.udoc = <<>>
     THEN \* user is null: reading user.name throws, caught below
          /\ Respond(r, q, ServerError)
          /\ StoreUnchanged
     ELSE LET id == PostIdPool[nextPost]
              post == NewPost(id, q.text, q.udoc[1], q.user)
          IN /\ posts' = [posts EXCEPT ![id] = <<post>>]
             /\ nextPost' = nextPost + 1
             /\ Respond(r, [q EXCEPT !.id = id], Json(<<post>>))
             /\ UNCHANGED <<users, profiles, nextComment, nextProfile, nextExp>>

(* ------------------ GET api/posts/:id: get a post --------------------- *)
GetPost(r, u, id) ==
  LET q == NewReq("getPost", u, id, "", "") IN
  /\ Free(r)
  /\ Respond(r, q, IF id = Malformed THEN PostNotFound
                   ELSE IF FindPostById(id) = <<>> THEN PostNotFound
                   ELSE Json(FindPostById(id)))
  /\ StoreUnchanged

(* ---------------- DELETE api/posts/:id: delete a post ----------------- *)
\* Slip: the owner is not compared with the caller.
IsPostOwner_Anyone(owner, uid) == TRUE

\* post.user.toString() !== req.user.id is the refusal
IsPostOwner(owner, uid) == OidString(owner) = uid

\* Slip: the removal is not carried out.
RemovePost_Keep(id) == posts

\* post.remove()
RemovePost(id) == [posts EXCEPT ![id] = <<>>]

DeletePostLoad(r, u, id) ==
  LET q == NewReq("deletePost", u, id, "", "") IN
  /\ Free(r)
  /\ IF id = Malformed THEN Respond(r, q, PostNotFound)
     ELSE Await(r, [q EXCEPT !.doc = Field(FindPostById(id), "user")])
  /\ StoreUnchanged

DeletePostFinish(r) ==
  LET q == reqs[r] IN
  /\ q.pc = "loaded" /\ q.op = "deletePost"
  /\ IF q.doc = <<>>
     THEN /\ Respond(r, q, PostNotFound)
          /\ StoreUnchanged
     ELSE IF ~IsPostOwner(q.doc[1], q.user)
     THEN /\ Respond(r, q, NotAuthorized)
          /\ StoreUnchanged
     ELSE /\ posts' = RemovePost(q.id)
          /\ Respond(r, q, PostRemoved)
          /\ UNCHANGED <<users, profiles, nextPost, nextComment, nextProfile, nextExp>>

(* ------------------ PUT api/posts/like/:id: like ---------------------- *)
\* Slip: like.user compared without toString() never equals the id string.
LikesBy_NoMatch(likes, uid) == 0

\* Slip: the filter keeps every like, whoever gave it.
LikesBy_Any(likes, uid) == Len(likes)

\* post.likes.filter(like => like.user.toString() === req.user.id).length
LikesBy(likes, uid) == Len(SelectSeq(likes, LAMBDA like : UserString(like) = uid))

LikeLoad(r, u, id) ==
  LET q == NewReq("like", u, id, "", "") IN
  /\ Free(r)
  /\ IF id = Malformed THEN Respond(r, q, ServerError)
     ELSE Await(r, [q EXCEPT !.doc = Field(FindPostById(id), "likes")])
  /\ StoreUnchanged

LikeFinish(r) ==
  LET q == reqs[r] IN
  /\ q.pc = "loaded" /\ q.op = "like"
  /\ IF q.doc = <<>>
     THEN \* post is null: reading post.likes throws, caught below
          /\ Respond(r, q, ServerError)
          /\ StoreUnchanged
     ELSE IF LikesBy(q.doc[1], q.user) > 0
     THEN /\ Respond(r, q, AlreadyLiked)
          /\ StoreUnchanged
     ELSE LET likes == Unshift(q.doc[1], [user |-> ObjectId(q.user)])
          IN \E o \in SaveOutcomes(q.id) :
               /\ posts' = SaveLikes(q.id, likes)
               /\ Respond(r, q, IF o = "ok" THEN Json(likes) ELSE ServerError)
               /\ UNCHANGED <<users, profiles, nextPost, nextComment,
                              nextProfile, nextExp>>

(* ----------------- PUT api/posts/unlike/:id: unlike ------------------- *)
\* Slip: the first entry is removed instead of the caller's.
LikeRemoveIndex_First(likes, uid) == 0

\* post.likes.map(like => like.user.toString()).indexOf(req.user.id)
LikeRemoveIndex(likes, uid) == IndexOf(UserStrings(likes), uid)

UnlikeLoad(r, u, id) ==
  LET q == NewReq("unlike", u, id, "", "") IN
  /\ Free(r)
  /\ IF id = Malformed THEN Respond(r, q, ServerError)
     ELSE Await(r, [q EXCEPT !.doc = Field(FindPostById(id), "likes")])
  /\ StoreUnchanged

UnlikeFinish(r) ==
  LET q == reqs[r] IN
  /\ q.pc = "loaded" /\ q.op = "unlike"
  /\ IF q.doc = <<>>
     THEN /\ Respond(r, q, ServerError)
          /\ StoreUnchanged
     ELSE IF LikesBy(q.doc[1], q.user) = 0
     THEN /\ Respond(r, q, NotLiked)
          /\ StoreUnchanged
     ELSE LET likes == Splice1(q.doc[1], LikeRemoveIndex(q.doc[1], q.user))
          IN \E o \in SaveOutcomes(q.id) :
               /\ posts' = SaveLikes(q.id, likes)
               /\ Respond(r, q, IF o = "ok" THEN Json(likes) ELSE ServerError)
               /\ UNCHANGED <<users, profiles, nextPost, nextComment,
                              nextProfile, nextExp>>

(* -------------- POST api/posts/comment/:id: add a comment ------------- *)
NewComment(cid, text, user, uid) ==
  [_id |-> ObjectId(cid), text |-> text, name |-> user.name,
   avatar |-> user.avatar, user |-> ObjectId(uid)]

AddCommentLoadUser(r, u, id, text) ==
  LET q == NewReq("addComment", u, id, "", text) IN
  /\ Free(r)
  /\ nextComment + InFlight("addComment") <= MaxComments
  /\ IF text = "" THEN Respond(r, q, ValidationError)
     ELSE Await(r, [q EXCEPT !.pc = "user", !.udoc = FindUserById(u)])
  /\ StoreUnchanged

AddCommentLoadPost(r) ==
  LET q == reqs[r] IN
  /\ q.pc = "user" /\ q.op = "addComment"
  /\ IF q.id = Malformed THEN Respond(r, q, ServerError)
     ELSE Await(r, [q EXCEPT !.pc = "loaded",
                             !.doc = Field(FindPostById(q.id), "comments")])
  /\ StoreUnchanged

AddCommentFinish(r) ==
  LET q == reqs[r] IN
  /\ q.pc = "loaded" /\ q.op = "addComment"
  /\ IF q.udoc = <<>> \/ q.doc = <<>>
     THEN \* user.name or post.comments read from null: throws, caught below
          /\ Respond(r, q, ServerError)
          /\ StoreUnchanged
     ELSE LET c == NewComment(CommentIdPool[nextComment], q.text, q.udoc[1], q.user)
              comments == Unshift(q.doc[1], c)
          IN \E o \in SaveOutcomes(q.id) :
               /\ posts' = SaveComments(q.id, comments)
               /\ nextComment' = nextComment + 1
               /\ Respond(r, q, IF o = "ok" THEN Json(comments) ELSE ServerError)
               /\ UNCHANGED <<users, profiles, nextPost, nextProfile, nextExp>>

(* ------ DELETE api/posts/comment/:id/:comment_id: delete a comment ---- *)
\* post.comments.find(comment => comment.id === req.params.comment_id):
\* the comment in a one-element sequence, or <<>> for undefined.
FindComment(comments, cid) ==
  LET found == SelectSeq(comments, LAMBDA c : IdString(c) = cid)
  IN IF found = <<>> THEN <<>> ELSE <<Head(found)>>

\* Slip: the author is not compared with the caller.
IsCommentAuthor_Anyone(comment, uid) == TRUE

\* comment.user.toString() !== req.user.id is the refusal
IsCommentAuthor(comment, uid) == OidString(comment.user) = uid

\* Slip: the first comment is removed, whoever wrote it.
CommentRemoveIndex_First(comments, uid) == 0

\* post.comments.map(comment => comment.user.toString()).indexOf(req.user.id)
CommentRemoveIndex(comments, uid) == IndexOf(UserStrings(comments), uid)

RemoveCommentLoad(r, u, id, cid) ==
  LET q == NewReq("removeComment", u, id, cid, "") IN
  /\ Free(r)
  /\ IF id = Malformed THEN Respond(r, q, ServerError)
     ELSE Await(r, [q EXCEPT !.doc = Field(FindPostById(id), "comments")])
  /\ StoreUnchanged

RemoveCommentFinish(r) ==
  LET q == reqs[r] IN
  /\ q.pc = "loaded" /\ q.op = "removeComment"
  /\ IF q.doc = <<>>
     THEN \* post is null: reading post.comments throws, caught below
          /\ Respond(r, q, ServerError)
          /\ StoreUnchanged
     ELSE IF FindComment(q.doc[1], q.cid) = <<>>
     THEN /\ Respond(r, q, CommentNotFound)
          /\ StoreUnchanged
     ELSE IF ~IsCommentAuthor(FindComment(q.doc[1], q.cid)[1], q.user)
     THEN /\ Respond(r, q, NotAuthorized)
          /\ StoreUnchanged
     ELSE LET comments == Splice1(q.doc[1], CommentRemoveIndex(q.doc[1], q.user))
          IN \E o \in SaveOutcomes(q.id) :
               /\ posts' = SaveComments(q.id, comments)
               /\ Respond(r, q, IF o = "ok" THEN Json(comments) ELSE ServerError)
               /\ UNCHANGED <<users, profiles, nextPost, nextComment,
                              nextProfile, nextExp>>

(* ---------------------- document store (profiles) --------------------- *)
\* Position of the first profile of user u in the collection, or 0.
ProfileIndex(u) ==
  IF \E i \in 1..Len(profiles) : profiles[i].user = ObjectId(u)
  THEN CHOOSE i \in 1..Len(profiles) :
         /\ profiles[i].user = ObjectId(u)
         /\ \A j \in 1..(i - 1) : profiles[j].user # ObjectId(u)
  ELSE 0

\* Profile.findOne({ user: req.user.id }): the document, or null (<<>>).
FindProfile(u) == IF ProfileIndex(u) = 0 THEN <<>> ELSE <<profiles[ProfileIndex(u)]>>

\* Position of the document with the given _id, or 0.
ProfileIndexById(oid) ==
  IF \E i \in 1..Len(profiles) : profiles[i]._id = oid
  THEN CHOOSE i \in 1..Len(profiles) : profiles[i]._id = oid
  ELSE 0

\* Slip: the removal has no filter on the user; every document goes.
RemoveAt_All(seq, i) == <<>>

RemoveAt(seq, i) == [k \in 1..(Len(seq) - 1) |-> IF k < i THEN seq[k] ELSE seq[k + 1]]

\* profile.save() after an in-place change of experience, as for posts.
ProfileSaveOutcomes(oid) == IF ProfileIndexById(oid) # 0 THEN {"ok"} ELSE {"ok", "error"}

SaveExperience(oid, experience) ==
  IF ProfileIndexById(oid) # 0
  THEN [profiles EXCEPT ![ProfileIndexById(oid)] = [@ EXCEPT !.experience = experience]]
  ELSE profiles

\* Slip: the stored document is replaced by the fields given; of the stored
\* keys only the generated ones stay.
SetFields_Replace(doc, fields) ==
  [f \in DOMAIN fields \cup ({"_id", "experience"} \cap DOMAIN doc) |->
     IF f \in DOMAIN fields THEN fields[f] ELSE doc[f]]

\* Slip: the Profile collection has no index on user.
DuplicateKey_Never(profile) == FALSE

\* The user reference of a profile is unique: the insert of a document for
\* a user who has one fails with a duplicate-key error.
DuplicateKey(profile) == \E i \in 1..Len(profiles) : profiles[i].user = profile.user

\* { $set: fields }: the keys given replace the stored ones, the rest stay.
SetFields(doc, fields) ==
  [f \in DOMAIN doc \cup DOMAIN fields |->
     IF f \in DOMAIN fields THEN fields[f] ELSE doc[f]]

(* ------------- POST api/profile: create or update a profile ----------- *)
TopFields == {"company", "website", "location", "bio", "status", "githubusername"}
SocialFields == {"youtube", "facebook", "twitter", "instagram", "linkedin"}

\* String.prototype.split(sep) on a sequence of characters.
RECURSIVE Split(_, _)
Split(str, sep) ==
  IF \E i \in 1..Len(str) : str[i] = sep
  THEN LET i == CHOOSE k \in 1..Len(str) :
                  str[k] = sep /\ \A j \in 1..(k - 1) : str[j] # sep
       IN <<SubSeq(str, 1, i - 1)>> \o Split(SubSeq(str, i + 1, Len(str)), sep)
  ELSE <<str>>

\* String.prototype.trim() on a sequence of characters.
RECURSIVE Trim(_)
Trim(str) ==
  IF str = <<>> THEN str
  ELSE IF Head(str) = " " THEN Trim(Tail(str))
  ELSE IF str[Len(str)] = " " THEN Trim(SubSeq(str, 1, Len(str) - 1))
  ELSE str

\* parts.map(skill => skill.trim())
TrimAll(parts) == [i \in 1..Len(parts) |-> Trim(parts[i])]

\* The profileFields object built from the request body.
ProfileFields(u, b) ==
  LET keys == {"user", "social"} \cup {f \in TopFields : b[f] # ""}
                \cup (IF b.skills # <<>> THEN {"skills"} ELSE {})
      social == [k \in {k \in SocialFields : b[k] # ""} |-> b[k]]
  IN [f \in keys |->
        IF f = "user" THEN ObjectId(u)
        ELSE IF f = "social" THEN social
        ELSE IF f = "skills" THEN TrimAll(Split(b.skills, ","))
        ELSE b[f]]

\* new Profile(profileFields)
NewProfile(pid, fields) ==
  SetFields([_id |-> ObjectId(pid), experience |-> <<>>], fields)

UpsertProfileLoad(r, u, b) ==
  LET q == [NewReq("upsertProfile", u, "", "", "") EXCEPT !.body = ProfileFields(u, b)] IN
  /\ Free(r)
  /\ FindProfile(u) = <<>> =>
       nextProfile + Cardinality({k \in Reqs : reqs[k].op = "upsertProfile"
                                               /\ reqs[k].doc = <<>>}) <= MaxProfiles
  /\ IF b.status = "" THEN Respond(r, q, Status(400, "Status is required"))
     ELSE IF b.skills = <<>> THEN Respond(r, q, Status(400, "Skills are required"))
     ELSE Await(r, [q EXCEPT !.doc = Fields(FindProfile(u), {"_id"})])
  /\ StoreUnchanged

UpsertProfileFinish(r) ==
  LET q == reqs[r] IN
  /\ q.pc = "loaded" /\ q.op = "upsertProfile"
  /\ IF q.doc # <<>>
     THEN \* findOneAndUpdate({ user }, { $set: profileFields }, { new: true })
          LET i == ProfileIndex(q.user) IN
          /\ profiles' = IF i = 0 THEN profiles
                         ELSE [profiles EXCEPT ![i] = SetFields(@, q.body)]
          /\ Respond(r, q, Json(IF i = 0 THEN <<>> ELSE <<SetFields(profiles[i], q.body)>>))
          /\ UNCHANGED <<users, posts, nextPost, nextComment, nextProfile, nextExp>>
     ELSE LET profile == NewProfile(ProfileIdPool[nextProfile], q.body) IN
          IF DuplicateKey(profile)
          THEN \* profile.save() throws, caught below
               /\ Respond(r, q, ServerError)
               /\ StoreUnchanged
          ELSE /\ profiles' = Append(profiles, profile)
               /\ nextProfile' = nextProfile + 1
               /\ Respond(r, q, Json(<<profile>>))
               /\ UNCHANGED <<users, posts, nextPost, nextComment, nextExp>>

(* --------- DELETE api/profile: delete the profile and the user -------- *)
DeleteProfileRemoveProfile(r, u) ==
  LET q == [NewReq("deleteProfile", u, "", "", "") EXCEPT !.pc = "removed"] IN
  /\ Free(r)
  /\ profiles' = IF ProfileIndex(u) = 0 THEN profiles
                 ELSE RemoveAt(profiles, ProfileIndex(u))
  /\ Await(r, q)
  /\ UNCHANGED <<users, posts, nextPost, nextComment, nextProfile, nextExp>>

DeleteProfileRemoveUser(r) ==
  LET q == reqs[r] IN
  /\ q.pc = "removed" /\ q.op = "deleteProfile"
  /\ users' = users \ {q.user}
  /\ Respond(r, q, Status(200, "User deleted"))
  /\ UNCHANGED <<posts, profiles, nextPost, nextComment, nextProfile, nextExp>>

(* ----------- PUT api/profile/experience: add an experience ------------ *)
NewExperience(eid, b) == SetFields([_id |-> ObjectId(eid)], b)

AddExperienceLoad(r, u, b) ==
  LET q == [NewReq("addExperience", u, "", "", "") EXCEPT !.body = b] IN
  /\ Free(r)
  /\ nextExp + InFlight("addExperience") <= MaxExp
  /\ IF b.title = "" THEN Respond(r, q, Status(400, "Title is required"))
     ELSE IF b.company = "" THEN Respond(r, q, Status(400, "Company is required"))
     ELSE IF b.from = "" THEN Respond(r, q, Status(400, "From date is required"))
     ELSE Await(r, [q EXCEPT !.doc = Fields(FindProfile(u), {"_id", "experience"})])
  /\ StoreUnchanged

AddExperienceFinish(r) ==
  LET q == reqs[r] IN
  /\ q.pc = "loaded" /\ q.op = "addExperience"
  /\ IF q.doc = <<>>
     THEN \* profile is null: reading profile.experience throws, caught below
          /\ Respond(r, q, ServerError)
          /\ StoreUnchanged
     ELSE LET experience == Unshift(q.doc[1].experience,
                                    NewExperience(ExpIdPool[nextExp], q.body))
          IN \E o \in ProfileSaveOutcomes(q.doc[1]._id) :
               /\ profiles' = SaveExperience(q.doc[1]._id, experience)
               /\ nextExp' = nextExp + 1
               /\ Respond(r, q, IF o = "ok"
                                THEN Json(<<[q.doc[1] EXCEPT !.experience = experience]>>)
                                ELSE ServerError)
               /\ UNCHANGED <<users, posts, nextPost, nextComment, nextProfile>>

(* ----- DELETE api/profile/experience/:exp_id: delete an experience ---- *)
\* Slip: the index is not looked up; the removal counts from the end.
ExperienceRemoveIndex_Last(experience, eid) == -1

\* profile.experience.map(item => item.id).indexOf(req.params.exp_id)
ExperienceRemoveIndex(experience, eid) == IndexOf(IdStrings(experience), eid)

RemoveExperienceLoad(r, u, eid) ==
  LET q == [NewReq("removeExperience", u, "", "", "") EXCEPT !.eid = eid] IN
  /\ Free(r)
  /\ Await(r, [q EXCEPT !.doc = Fields(FindProfile(u), {"_id", "experience"})])
  /\ StoreUnchanged

RemoveExperienceFinish(r) ==
  LET q == reqs[r] IN
  /\ q.pc = "loaded" /\ q.op = "removeExperience"
  /\ IF q.doc = <<>>
     THEN \* profile is null: reading profile.experience throws, caught below
          /\ Respond(r, q, ServerError)
          /\ StoreUnchanged
     ELSE LET experience == Splice1(q.doc[1].experience,
                                    ExperienceRemoveIndex(q.doc[1].experience, q.eid))
          IN \E o \in ProfileSaveOutcomes(q.doc[1]._id) :
               /\ profiles' = SaveExperience(q.doc[1]._id, experience)
               /\ Respond(r, q, IF o = "ok"
                                THEN Json(<<[q.doc[1] EXCEPT !.experience = experience]>>)
                                ELSE ServerError)
               /\ UNCHANGED <<users, posts, nextPost, nextComment, nextProfile, nextExp>>

(* ------------------ the auth middleware of the routes ----------------- *)
\* The credential header of a request: absent (<<>>), or a token that
\* carries a user claim and is signed with a secret.
JwtSecret == "secret"
Tokens == [user : Users, secret : {JwtSecret, "other"}, expired : BOOLEAN]
Headers == {<<>>} \cup {<<t>> : t \in Tokens}

\* Token Codec: the identity claim, or <<>> for an AuthError.
Verify(token) ==
  IF token.secret # JwtSecret \/ token.expired THEN <<>> ELSE <<token.user>>

\* Auth Gate: the identity the handlers read as req.user.id, or <<>> when
\* the request is answered 401.
Auth(header) == IF header = <<>> THEN <<>> ELSE Verify(header[1])

Unauthenticated == Status(401, "Unauthenticated")

\* The handlers that write to the store.
MutatingOps == {"createPost", "deletePost", "like", "unlike", "addComment",
                "removeComment", "upsertProfile", "deleteProfile",
                "addExperience", "removeExperience"}

\* Slip: the routes are declared without the middleware.
Protected_None == {}

\* The routes whose middleware chain starts with auth.
Protected == {"createPost", "deletePost", "like", "unlike", "addComment",
              "removeComment", "upsertProfile", "deleteProfile",
              "addExperience", "removeExperience"}

\* req.user.id: set by auth, and by nothing else.
Identity(header) == IF Auth(header) = <<>> THEN "" ELSE Auth(header)[1]

\* A request for handler o arrives with the given credential header: it
\* passes the middleware chain of the route and the handler starts.
Arrive(r, o, header) ==
  IF o \in Protected /\ Auth(header) = <<>>
  THEN /\ Free(r)
       /\ Respond(r, NewReq(o, "", "", "", ""), Unauthenticated)
       /\ StoreUnchanged
  ELSE \/ o = "createPost"
          /\ \E t \in TextInputs : CreatePostLoad(r, Identity(header), t)
       \/ o = "like"
          /\ \E id \in PostIds : LikeLoad(r, Identity(header), id)
       \/ o = "upsertProfile"
          /\ UpsertProfileLoad(r, Identity(header), BodyCompany)

(* --------------------------- specification ---------------------------- *)
PostNext ==
  \E r \in Reqs :
    \/ \E u \in Users, t \in TextInputs : CreatePostLoad(r, u, t)
    \/ CreatePostFinish(r)
    \/ \E u \in Users, id \in PostIdInputs : GetPost(r, u, id)
    \/ \E u \in Users, id \in PostIdInputs : DeletePostLoad(r, u, id)
    \/ DeletePostFinish(r)
    \/ \E u \in Users, id \in PostIdInputs : LikeLoad(r, u, id)
    \/ LikeFinish(r)
    \/ \E u \in Users, id \in PostIdInputs : UnlikeLoad(r, u, id)
    \/ UnlikeFinish(r)
    \/ \E u \in Users, id \in PostIdInputs, t \in TextInputs :
         AddCommentLoadUser(r, u, id, t)
    \/ AddCommentLoadPost(r)
    \/ AddCommentFinish(r)
    \/ \E u \in Users, id \in PostIdInputs, cid \in CommentIdInputs :
         RemoveCommentLoad(r, u, id, cid)
    \/ RemoveCommentFinish(r)

\* The like handlers with the handlers that create and delete posts.
LikeNext ==
  \E r \in Reqs :
    \/ \E u \in Users, t \in TextInputs : CreatePostLoad(r, u, t)
    \/ CreatePostFinish(r)
    \/ \E u \in Users, id \in PostIdInputs : DeletePostLoad(r, u, id)
    \/ DeletePostFinish(r)
    \/ \E u \in Users, id \in PostIdInputs : LikeLoad(r, u, id)
    \/ LikeFinish(r)
    \/ \E u \in Users, id \in PostIdInputs : UnlikeLoad(r, u, id)
    \/ UnlikeFinish(r)

\* The comment handlers with the handlers that create and delete posts.
CommentNext ==
  \E r \in Reqs :
    \/ \E u \in Users, t \in TextInputs : CreatePostLoad(r, u, t)
    \/ CreatePostFinish(r)
    \/ \E u \in Users, id \in PostIdInputs : DeletePostLoad(r, u, id)
    \/ DeletePostFinish(r)
    \/ \E u \in Users, id \in PostIdInputs, t \in TextInputs :
         AddCommentLoadUser(r, u, id, t)
    \/ AddCommentLoadPost(r)
    \/ AddCommentFinish(r)
    \/ \E u \in Users, id \in PostIdInputs, cid \in CommentIdInputs :
         RemoveCommentLoad(r, u, id, cid)
    \/ RemoveCommentFinish(r)

ProfileNext ==
  \E r \in Reqs :
    \/ \E u \in Users, b \in UpsertInputs : UpsertProfileLoad(r, u, b)
    \/ UpsertProfileFinish(r)
    \/ \E u \in Users : DeleteProfileRemoveProfile(r, u)
    \/ DeleteProfileRemoveUser(r)
    \/ \E u \in Users, b \in ExpInputs : AddExperienceLoad(r, u, b)
    \/ AddExperienceFinish(r)
    \/ \E u \in Users, eid \in ExpIdInputs : RemoveExperienceLoad(r, u, eid)
    \/ RemoveExperienceFinish(r)

\* The experience handlers, with profiles created from one request body.
ExperienceNext ==
  \E r \in Reqs :
    \/ \E u \in Users : UpsertProfileLoad(r, u, BodyCompany)
    \/ UpsertProfileFinish(r)
    \/ \E u \in Users, b \in ExpInputs : AddExperienceLoad(r, u, b)
    \/ AddExperienceFinish(r)
    \/ \E u \in Users, eid \in ExpIdInputs : RemoveExperienceLoad(r, u, eid)
    \/ RemoveExperienceFinish(r)

\* The handlers that create, update and delete profiles and users.
AccountNext ==
  \E r \in Reqs :
    \/ \E u \in Users, b \in UpsertInputs : UpsertProfileLoad(r, u, b)
    \/ UpsertProfileFinish(r)
    \/ \E u \in Users : DeleteProfileRemoveProfile(r, u)
    \/ DeleteProfileRemoveUser(r)

\* The handlers that write a profile's fields and add to its experience.
ProfileEditNext ==
  \E r \in Reqs :
    \/ \E u \in Users, b \in UpsertInputs : UpsertProfileLoad(r, u, b)
    \/ UpsertProfileFinish(r)
    \/ \E u \in Users, b \in ExpInputs : AddExperienceLoad(r, u, b)
    \/ AddExperienceFinish(r)

\* The handlers that delete a profile and its user, with handlers that
\* create what a deletion could take along: posts, likes, comments, profiles.
\* The likes are given by one of the users.
DeleteAccountNext ==
  \E r \in Reqs :
    \/ \E u \in Users : CreatePostLoad(r, u, "hello")
    \/ CreatePostFinish(r)
    \/ \E id \in PostIds : LikeLoad(r, "u2", id)
    \/ LikeFinish(r)
    \/ \E u \in Users, id \in PostIds : AddCommentLoadUser(r, u, id, "hello")
    \/ AddCommentLoadPost(r)
    \/ AddCommentFinish(r)
    \/ \E u \in Users : UpsertProfileLoad(r, u, BodyCompany)
    \/ UpsertProfileFinish(r)
    \/ \E u \in Users : DeleteProfileRemoveProfile(r, u)
    \/ DeleteProfileRemoveUser(r)

\* The handlers that create, read and delete posts, with the like handler,
\* whose save can come after a deletion.
PostLifeNext ==
  \E r \in Reqs :
    \/ \E u \in Users, t \in TextInputs : CreatePostLoad(r, u, t)
    \/ CreatePostFinish(r)
    \/ \E u \in Users, id \in PostIdInputs : GetPost(r, u, id)
    \/ \E u \in Users, id \in PostIdInputs : DeletePostLoad(r, u, id)
    \/ DeletePostFinish(r)
    \/ \E u \in Users, id \in PostIdInputs : LikeLoad(r, u, id)
    \/ LikeFinish(r)

\* Requests arriving with any credential header, at every writing route;
\* of the handlers, those that create posts, likes and profiles go on.
AuthGateNext ==
  \E r \in Reqs :
    \/ \E o \in MutatingOps, header \in Headers : Arrive(r, o, header)
    \/ CreatePostFinish(r)
    \/ LikeFinish(r)
    \/ UpsertProfileFinish(r)

\* The handlers that change the likes and the comments of a post, with
\* the handlers that create the post and a profile.  The likes are given
\* by one of the users, the profile is the other's.
PostEditNext ==
  \E r \in Reqs :
    \/ \E u \in Users : CreatePostLoad(r, u, "hello")
    \/ CreatePostFinish(r)
    \/ \E id \in PostIds : LikeLoad(r, "u2", id)
    \/ LikeFinish(r)
    \/ \E id \in PostIds : UnlikeLoad(r, "u2", id)
    \/ UnlikeFinish(r)
    \/ \E u \in Users, id \in PostIds : AddCommentLoadUser(r, u, id, "hello")
    \/ AddCommentLoadPost(r)
    \/ AddCommentFinish(r)
    \/ \E u \in Users, id \in PostIds, cid \in CommentIds :
         RemoveCommentLoad(r, u, id, cid)
    \/ RemoveCommentFinish(r)
    \/ UpsertProfileLoad(r, "u1", BodyCompany)
    \/ UpsertProfileFinish(r)

Next == PostNext \/ ProfileNext

Spec == Init /\ [][Next]_vars
LikeSpec == Init /\ [][LikeNext]_vars
CommentSpec == Init /\ [][CommentNext]_vars
ExperienceSpec == Init /\ [][ExperienceNext]_vars
AccountSpec == Init /\ [][AccountNext]_vars
ProfileEditSpec == Init /\ [][ProfileEditNext]_vars
DeleteAccountSpec == Init /\ [][DeleteAccountNext]_vars
PostLifeSpec == Init /\ [][PostLifeNext]_vars
AuthGateSpec == Init /\ [][AuthGateNext]_vars
PostEditSpec == Init /\ [][PostEditNext]_vars

(* ======================= properties of the handlers ==================== *)
\* Request r, of handler o, is answered in this step.
Answered(r, o) == reqs[r].op = o /\ reqs[r].pc = "loaded" /\ reqs'[r].pc = "idle"

\* The response is the given one: same status, same message.
Is(resp, rsp) == resp.status = rsp.status /\ resp.msg = rsp.msg

HasLikeOf(likes, u) == \E i \in 1..Len(likes) : likes[i].user = ObjectId(u)
HasComment(comments, cid) == \E i \in 1..Len(comments) : comments[i]._id = ObjectId(cid)
CommentOf(comments, cid) ==
  comments[CHOOSE i \in 1..Len(comments) : comments[i]._id = ObjectId(cid)]
Stored(id) == id \in PostIds /\ posts[id] # <<>>

\* C1: deletePost by an identity other than the owner of the post it loaded
\* is answered 401 'User not authorized' (not 404) and writes nothing, so
\* the post stays as it is, text, likes and comments included.
C1_DeleteByNonOwnerForbidden ==
  [][\A r \in Reqs :
       (/\ Answered(r, "deletePost")
        /\ reqs[r].doc # <<>>
        /\ reqs[r].doc[1] # ObjectId(reqs[r].user))
       => /\ Is(last'.resp, NotAuthorized)
          /\ last'.resp.status # PostNotFound.status
          /\ posts' = posts]_vars

C1_Witness ==
  /\ last.op = "deletePost" /\ Is(last.resp, NotAuthorized)
  /\ Stored(last.id)
  /\ posts[last.id][1].user # ObjectId(last.user)
  /\ posts[last.id][1].comments # <<>>

\* C2: removeComment on an existing comment is decided by the comment's
\* author: anyone else, the owner of the post included, is answered 401 and
\* the comments stay as they are; the author is never answered 401, and
\* while the post is stored the answer is 200 and one comment is gone.
C2_CommentAuthorDecides ==
  [][\A r \in Reqs :
       (/\ Answered(r, "removeComment")
        /\ reqs[r].doc # <<>>
        /\ HasComment(reqs[r].doc[1], reqs[r].cid))
       => IF CommentOf(reqs[r].doc[1], reqs[r].cid).user # ObjectId(reqs[r].user)
          THEN Is(last'.resp, NotAuthorized) /\ posts' = posts
          ELSE /\ last'.resp.status # NotAuthorized.status
               /\ Stored(reqs[r].id) =>
                    /\ last'.resp.status = 200
                    /\ Len(posts'[reqs[r].id][1].comments)
                         = Len(reqs[r].doc[1]) - 1]_vars

\* The owner of the post is refused the removal of somebody else's comment.
C2_Witness ==
  /\ last.op = "removeComment" /\ Is(last.resp, NotAuthorized)
  /\ Stored(last.id)
  /\ posts[last.id][1].user = ObjectId(last.user)
  /\ HasComment(posts[last.id][1].comments, last.cid)

\* C3: a removeComment answered 200 removes the comment named by commentId
\* and no other: the comments left are the loaded ones without that one,
\* in the same order.
C3_RemovesTheNamedComment ==
  [][\A r \in Reqs :
       (/\ Answered(r, "removeComment")
        /\ last'.resp.status = 200
        /\ Stored(reqs[r].id))
       => posts'[reqs[r].id][1].comments
            = SelectSeq(reqs[r].doc[1], LAMBDA c : c._id # ObjectId(reqs[r].cid))]_vars

\* C4: the likes of every post hold at most one entry per user.
C4_LikesUniquePerUser ==
  \A id \in PostIds :
    Stored(id) =>
      \A i, j \in 1..Len(posts[id][1].likes) :
        posts[id][1].likes[i].user = posts[id][1].likes[j].user => i = j

\* Two like requests of one user overlap: the first has saved its entry,
\* the second loaded the post before that and will save too.
C4_Witness ==
  \E r \in Reqs :
    /\ reqs[r].op = "like" /\ reqs[r].pc = "loaded" /\ reqs[r].doc # <<>>
    /\ ~HasLikeOf(reqs[r].doc[1], reqs[r].user)
    /\ Stored(reqs[r].id)
    /\ HasLikeOf(posts[reqs[r].id][1].likes, reqs[r].user)
    /\ last.op = "like" /\ last.user = reqs[r].user /\ last.resp.status = 200

\* C5: like on a post whose loaded likes hold an entry of the caller is
\* answered 400 'Post already liked' and writes nothing.
C5_SecondLikeIsConflict ==
  [][\A r \in Reqs :
       (/\ Answered(r, "like")
        /\ reqs[r].doc # <<>>
        /\ HasLikeOf(reqs[r].doc[1], reqs[r].user))
       => /\ Is(last'.resp, AlreadyLiked)
          /\ last'.resp.status # ServerError.status
          /\ posts' = posts]_vars

C5_Witness ==
  /\ last.op = "like" /\ Is(last.resp, AlreadyLiked)
  /\ Stored(last.id)
  /\ HasLikeOf(posts[last.id][1].likes, last.user)
  /\ Len(posts[last.id][1].likes) = 2

\* C6: an unlike that saves removes the caller's entry and no other: the
\* likes stored are the loaded ones without it, in the same order, one
\* entry fewer.
C6_UnlikeRemovesOwnEntry ==
  [][\A r \in Reqs :
       (/\ Answered(r, "unlike")
        /\ reqs[r].doc # <<>>
        /\ HasLikeOf(reqs[r].doc[1], reqs[r].user)
        /\ Stored(reqs[r].id))
       => /\ last'.resp.status = 200
          /\ posts'[reqs[r].id][1].likes
               = SelectSeq(reqs[r].doc[1], LAMBDA l : l.user # ObjectId(reqs[r].user))
          /\ Len(posts'[reqs[r].id][1].likes) = Len(reqs[r].doc[1]) - 1]_vars

\* The entry removed was not the first of the likes.
C6_Witness ==
  /\ last.op = "unlike" /\ last.resp.status = 200
  /\ Len(last.doc[1]) = 2
  /\ last.doc[1][2].user = ObjectId(last.user)
  /\ Stored(last.id)
  /\ posts[last.id][1].likes = <<last.doc[1][1]>>

\* C7: unlike on a post whose loaded likes hold no entry of the caller is
\* answered 400 'Post has not yet been liked' and writes nothing.
C7_UnlikeWithoutLike ==
  [][\A r \in Reqs :
       (/\ Answered(r, "unlike")
        /\ reqs[r].doc # <<>>
        /\ ~HasLikeOf(reqs[r].doc[1], reqs[r].user))
       => /\ Is(last'.resp, NotLiked)
          /\ posts' = posts]_vars

\* The caller's unlike is refused on a post another user likes.
C7_Witness ==
  /\ last.op = "unlike" /\ Is(last.resp, NotLiked)
  /\ Stored(last.id)
  /\ posts[last.id][1].likes # <<>>
  /\ posts[last.id][1].likes = last.doc[1]
  /\ ~HasLikeOf(posts[last.id][1].likes, last.user)

\* C8: like with a well-formed id under which no post is stored (never
\* created, or deleted) is answered 404, not 500, and writes nothing.
C8_LikeMissingPostNotFound ==
  [][\A r \in Reqs :
       (Answered(r, "like") /\ reqs[r].doc = <<>>)
       => /\ last'.resp.status = PostNotFound.status
          /\ last'.resp.status # ServerError.status
          /\ posts' = posts]_vars

\* C9: removeComment is answered 404 when no post is stored under the id
\* and when the post has no comment with the given id.
\* In both cases nothing is written.
C9_RemoveCommentNotFound ==
  [][\A r \in Reqs :
       (/\ Answered(r, "removeComment")
        /\ (reqs[r].doc = <<>> \/ ~HasComment(reqs[r].doc[1], reqs[r].cid)))
       => /\ last'.resp.status = CommentNotFound.status
          /\ posts' = posts]_vars

\* C10: addExperience of a caller who has no profile is answered as not
\* found (404, or 400 as GET api/profile/me answers a missing profile), not
\* 500, and creates no profile.
C10_AddExperienceWithoutProfile ==
  [][\A r \in Reqs :
       (Answered(r, "addExperience") /\ reqs[r].doc = <<>>)
       => /\ last'.resp.status \in {404, 400}
          /\ last'.resp.status # ServerError.status
          /\ profiles' = profiles]_vars

HasExperience(experience, eid) ==
  \E i \in 1..Len(experience) : experience[i]._id = ObjectId(eid)

\* The experience stored in the profile document with the given _id.
StoredExperience(oid) == profiles[ProfileIndexById(oid)].experience

\* C11: removeExperience with an id that no entry of the caller's experience
\* has is answered 200 and leaves the experience as it was: no entry
\* removed, order unchanged, whatever the length.
C11_RemoveAbsentExperienceIsNoOp ==
  [][\A r \in Reqs :
       (/\ Answered(r, "removeExperience")
        /\ reqs[r].doc # <<>>
        /\ ~HasExperience(reqs[r].doc[1].experience, reqs[r].eid)
        /\ StoredExperience(reqs[r].doc[1]._id) = reqs[r].doc[1].experience)
       => /\ last'.resp.status = 200
          /\ profiles' = profiles]_vars

\* C12: addExperience followed by removeExperience of the same caller with
\* the id of the entry just added restores the experience: what is stored
\* afterwards is, element by element and in order, the sequence the
\* addExperience had loaded, and nothing else in the profiles changes.
C12_AddThenRemoveRestores ==
  [][\A r \in Reqs :
       (/\ Answered(r, "removeExperience")
        /\ last.op = "addExperience" /\ last.resp.status = 200
        /\ last.user = reqs[r].user
        /\ reqs[r].eid = ExpIdPool[nextExp - 1]
        /\ reqs[r].doc # <<>>
        /\ HasExperience(reqs[r].doc[1].experience, reqs[r].eid))
       => /\ last'.resp.status = 200
          /\ profiles' = [profiles EXCEPT
                            ![ProfileIndexById(reqs[r].doc[1]._id)].experience =
                              last.doc[1].experience]]_vars

\* The entry added last was removed again from an experience of two; the
\* older entry is what is stored.
C12_Witness ==
  /\ last.op = "removeExperience" /\ last.resp.status = 200
  /\ nextExp > 2 /\ last.eid = ExpIdPool[nextExp - 1]
  /\ Len(last.doc[1].experience) = 2
  /\ last.doc[1].experience[1]._id = ObjectId(last.eid)
  /\ StoredExperience(last.doc[1]._id) = <<last.doc[1].experience[2]>>

\* The social links a request body supplies.
SuppliedSocial(b) == [k \in {k \in SocialFields : b[k] # ""} |-> b[k]]

\* Document new is document old after an upsert with request body b.
MergedFrom(new, old, b) ==
  /\ \A f \in TopFields :
       IF b[f] # "" THEN f \in DOMAIN new /\ new[f] = b[f]
       ELSE /\ f \in DOMAIN new <=> f \in DOMAIN old
            /\ f \in DOMAIN old => new[f] = old[f]
  /\ new.experience = old.experience
  /\ new._id = old._id /\ new.user = old.user
  /\ new.social = SuppliedSocial(b)

\* C13: upsertProfile of a caller whose profile exists sets the top-level
\* fields the request supplies and keeps every omitted one, the experience
\* too; social becomes the links supplied in this request and no others.
\* The other profiles stay as they are.
C13_UpsertMergesSuppliedFields ==
  [][\A r \in Reqs : \A b \in UpsertInputs :
       (/\ Answered(r, "upsertProfile")
        /\ reqs[r].doc # <<>>
        /\ reqs[r].body = ProfileFields(reqs[r].user, b)
        /\ ProfileIndex(reqs[r].user) # 0)
       => LET i == ProfileIndex(reqs[r].user) IN
          /\ last'.resp.status = 200
          /\ Len(profiles') = Len(profiles)
          /\ MergedFrom(profiles'[i], profiles[i], b)
          /\ \A j \in 1..Len(profiles) : j # i => profiles'[j] = profiles[j]]_vars

\* A profile created with a company and a youtube link, with an experience
\* entry, was updated with a bio and a twitter link: the company and the
\* experience are kept, the youtube link is gone.
C13_Witness ==
  /\ last.op = "upsertProfile" /\ last.doc # <<>> /\ last.resp.status = 200
  /\ ProfileIndex(last.user) # 0
  /\ LET p == profiles[ProfileIndex(last.user)] IN
       /\ p.experience # <<>>
       /\ "company" \in DOMAIN p /\ p.company = BodyCompany.company
       /\ "bio" \in DOMAIN p /\ p.bio = BodyBio.bio
       /\ p.social = [twitter |-> BodyBio.twitter]

\* C14: the Profile collection holds at most one document per user, also
\* when two upsertProfile requests of one user without a profile both look
\* the profile up before either saves.
C14_OneProfilePerUser ==
  \A i, j \in 1..Len(profiles) : profiles[i].user = profiles[j].user => i = j

\* Two upsertProfile requests of one user both found no profile; the first
\* has saved its document, the second has been refused by the store.
C14_Witness ==
  /\ last.op = "upsertProfile" /\ last.doc = <<>>
  /\ last.resp.status = ServerError.status
  /\ ProfileIndex(last.user) # 0

C16_MalformedPostIdNotFound ==
  [][(/\ last' # last
      /\ last'.id = Malformed
      /\ ~Is(last'.resp, ValidationError))
     => /\ last'.resp.status = PostNotFound.status
        /\ last'.resp.status # ServerError.status
        /\ posts' = posts /\ profiles' = profiles /\ users' = users]_vars

\* A post has been created under the id.
Created(id) == \E i \in 1..(nextPost - 1) : PostIdPool[i] = id

\* C17: a post is created with no likes and no comments; a deletePost that
\* its owner is answered 'Post removed' for leaves no post under the id; a
\* post that is gone never comes back, whatever follows; and a get of an
\* id under which no post is stored is answered 404 'Post not found'.
C17_PostLifeCycle ==
  [][/\ \A r \in Reqs :
          (Answered(r, "createPost") /\ last'.resp.status = 200)
          => /\ last'.id \in PostIds /\ posts'[last'.id] # <<>>
             /\ posts'[last'.id][1].likes = <<>>
             /\ posts'[last'.id][1].comments = <<>>
     /\ \A r \in Reqs :
          (Answered(r, "deletePost") /\ Is(last'.resp, PostRemoved))
          => posts'[reqs[r].id] = <<>>
     /\ \A id \in PostIds : (Created(id) /\ ~Stored(id)) => posts'[id] = <<>>
     /\ (last' # last /\ last'.op = "getPost" /\ ~Stored(last'.id))
          => Is(last'.resp, PostNotFound)]_vars

\* A get of the id of a post that was created and deleted is answered 404.
C17_Witness ==
  /\ last.op = "getPost" /\ Is(last.resp, PostNotFound)
  /\ last.id \in PostIds /\ Created(last.id) /\ ~Stored(last.id)

\* The credential passes verification: present, signed with the secret of
\* the process, not expired.
Verifies(header) ==
  header # <<>> /\ header[1].secret = JwtSecret /\ ~header[1].expired

\* C18: a request to a writing route that carries no credential, or one
\* that does not pass verification, is answered 401 Unauthenticated (not
\* 'User not authorized'), ends there, and leaves the store as it is.
C18_AuthGate ==
  [][\A r \in Reqs : Free(r) =>
       \A o \in MutatingOps : (reqs'[r].op = o \/ last'.op = o) =>
         \A header \in Headers :
           (~Verifies(header) /\ Arrive(r, o, header))
           => /\ Is(last'.resp, Unauthenticated)
              /\ ~Is(last'.resp, NotAuthorized)
              /\ last'.op = o /\ reqs'[r].pc = "idle"
              /\ StoreUnchanged]_vars

\* A request was turned away at the gate while a post and a profile are
\* stored.
C18_Witness ==
  /\ last.op \in MutatingOps /\ last.user = ""
  /\ Is(last.resp, Unauthenticated)
  /\ \E id \in PostIds : Stored(id)
  /\ profiles # <<>>

\* The position of a comment in the order of creation.
CreatedAt(comment) ==
  CHOOSE i \in 1..Len(CommentIdPool) : CommentIdPool[i] = IdString(comment)

\* C19: the comments of every post are stored most recent first: each
\* comment was created after all those that follow it.
C19_CommentsNewestFirst ==
  \A id \in PostIds :
    Stored(id) =>
      \A i, j \in 1..Len(posts[id][1].comments) :
        i < j => CreatedAt(posts[id][1].comments[i])
                   > CreatedAt(posts[id][1].comments[j])

\* A post with two comments.
C19_Witness ==
  \E id \in PostIds :
    /\ Stored(id)
    /\ Len(posts[id][1].comments) = 2
    /\ last.op = "addComment" /\ last.resp.status = 200

\* C20: concurrent likes are last-write-wins.  A like that found no entry
\* of the caller in the likes it loaded is answered 200 and stores the
\* loaded likes with the caller's entry at the head, whatever was stored
\* since the load: an entry another request has saved meanwhile is lost,
\* and the request neither fails nor starts again.
C20_LikeLastWriteWins ==
  [][\A r \in Reqs :
       (/\ Answered(r, "like")
        /\ reqs[r].doc # <<>>
        /\ ~HasLikeOf(reqs[r].doc[1], reqs[r].user)
        /\ Stored(reqs[r].id))
       => /\ last'.resp.status = 200
          /\ posts'[reqs[r].id][1].likes
               = <<[user |-> ObjectId(reqs[r].user)]>> \o reqs[r].doc[1]
          /\ \A u \in Users :
               (u # reqs[r].user /\ ~HasLikeOf(reqs[r].doc[1], u))
               => ~HasLikeOf(posts'[reqs[r].id][1].likes, u)]_vars

\* Two like requests of different users both loaded the post without
\* likes; the first has been answered 200 and its entry is stored; the
\* second is about to save.
C20_Witness ==
  \E r \in Reqs :
    /\ reqs[r].op = "like" /\ reqs[r].pc = "loaded"
    /\ reqs[r].doc = <<<<>>>>
    /\ Stored(reqs[r].id)
    /\ last.op = "like" /\ last.id = reqs[r].id /\ last.user # reqs[r].user
    /\ last.doc = <<<<>>>> /\ last.resp.status = 200
    /\ posts[reqs[r].id][1].likes = <<[user |-> ObjectId(last.user)]>>

\* Sequence after is sequence before less exactly one element, and that
\* element is a comment written by user u.
LessOneCommentOf(after, before, u) ==
  \E k \in 1..Len(before) :
    /\ before[k].user = ObjectId(u)
    /\ after = [i \in 1..(Len(before) - 1) |->
                  IF i < k THEN before[i] ELSE before[i + 1]]

\* C21 as stated: in every execution a removeComment answered 200 makes
\* exactly one comment disappear from the post, a comment written by the
\* caller: the comments stored after the step are those stored before it
\* less that one.
C21_RemovesOnlyOwnComment ==
  [][\A r \in Reqs :
       (/\ Answered(r, "removeComment")
        /\ last'.resp.status = 200
        /\ Stored(reqs[r].id))
       => LessOneCommentOf(posts'[reqs[r].id][1].comments,
                           posts[reqs[r].id][1].comments, reqs[r].user)]_vars

\* C21 amended: a removeComment answered 200 stores the comments it had
\* loaded less exactly one, a comment written by the caller.  (When no
\* other request has saved comments since the load, that is the stored
\* comments less one of the caller's.)
C21_SavesLoadedLessOwnComment ==
  [][\A r \in Reqs :
       (/\ Answered(r, "removeComment")
        /\ last'.resp.status = 200
        /\ Stored(reqs[r].id))
       => LessOneCommentOf(posts'[reqs[r].id][1].comments,
                           reqs[r].doc[1], reqs[r].user)]_vars

\* Of two comments by different users the caller's went, the other
\* user's is what is stored.
C21_Witness ==
  /\ last.op = "removeComment" /\ last.resp.status = 200
  /\ Len(last.doc[1]) = 2
  /\ last.doc[1][1].user # last.doc[1][2].user
  /\ Stored(last.id)
  /\ Len(posts[last.id][1].comments) = 1
  /\ posts[last.id][1].comments[1].user # ObjectId(last.user)
  /\ posts[last.id][1].comments[1] \in {last.doc[1][1], last.doc[1][2]}

\* This step changes, of the post stored under id, field f and no other,
\* and nothing else in the store.
OnlyChanged(id, f) ==
  /\ profiles' = profiles /\ users' = users
  /\ \A i \in PostIds \ {id} : posts'[i] = posts[i]
  /\ id \in PostIds =>
       \/ posts[id] = <<>> /\ posts'[id] = <<>>
       \/ /\ posts[id] # <<>> /\ posts'[id] # <<>>
          /\ \A g \in DOMAIN posts[id][1] \ {f} :
               posts'[id][1][g] = posts[id][1][g]

====
